---- MODULE Spec2Model ----
(***************************************************************************)
(* Model of cmd/main.go of file_manager_version: the content-addressed     *)
(* store (storeFile), the version ledger (logVersion), the action log      *)
(* (logAction) and the duplicate sweep (deduplicateFiles).                  *)
(*                                                                         *)
(* Every invocation of the tool is one operating-system process that runs  *)
(* one action (main, lines 411-468); the processes share the filesystem    *)
(* and the SQLite database file.  A store call is therefore a sequence of  *)
(* system calls and SQL statements that interleaves with those of other    *)
(* calls.  Inside one sweep the caller and the walk goroutine interleave.  *)
(* The invocations modelled are store calls that overlap one another and   *)
(* sweeps that are run while no store call is in flight (StoreBegin and    *)
(* SweepBegin wait for the other kind to have returned).                   *)
(*                                                                         *)
(* Strings (paths, names, hex digests) are sequences of one-character      *)
(* strings, file contents are sequences of byte values.                    *)
(***************************************************************************)
EXTENDS Integers, Sequences, FiniteSets, TLC

\* ---------------------------------------------------------------- bounds
\* Number of store invocations of a behaviour.
NumStores == 2
\* Number of sweep invocations of a behaviour (run one after the other).
MaxSweeps == 2

Calls == 1..NumStores
Sweeps == 1..MaxSweeps

\* ------------------------------------------------------- strings and paths
\* The characters in use, in byte order (sort.Strings in readDirNames).
Alphabet == <<".", "/", "0", "1", "2", "3", "4", "5", "6", "7", "8", "9",
              "a", "b", "c", "d", "e", "f", "i", "j", "s", "t", "u">>

Ord(ch) == CHOOSE k \in 1..Len(Alphabet) : Alphabet[k] = ch

\* Byte-wise string comparison s < t.
RECURSIVE StrLess(_, _)
StrLess(s, t) ==
    IF t = <<>> THEN FALSE
    ELSE IF s = <<>> THEN TRUE
    ELSE IF Head(s) = Head(t) THEN StrLess(Tail(s), Tail(t))
    ELSE Ord(Head(s)) < Ord(Head(t))

\* Index of the last "/" of a path, 0 when there is none.
LastSlash(p) ==
    LET S == {k \in 1..Len(p) : p[k] = "/"}
    IN  IF S = {} THEN 0 ELSE CHOOSE k \in S : \A m \in S : m <= k

\* filepath.Base for clean, non-empty paths: the last element.
Base(p) == SubSeq(p, LastSlash(p) + 1, Len(p))

\* filepath.Dir for clean paths: all but the last element.
Dir(p) == IF LastSlash(p) = 0 THEN <<".">> ELSE SubSeq(p, 1, LastSlash(p) - 1)

\* filepath.Ext: the suffix beginning at the final dot of the last element,
\* empty if there is no dot.
Ext(p) ==
    LET D == {k \in (LastSlash(p) + 1)..Len(p) : p[k] = "."}
    IN  IF D = {} THEN <<>>
        ELSE SubSeq(p, CHOOSE k \in D : \A m \in D : m <= k, Len(p))

HasSuffix(s, suf) ==
    /\ Len(suf) <= Len(s)
    /\ SubSeq(s, Len(s) - Len(suf) + 1, Len(s)) = suf

\* strings.TrimSuffix
TrimSuffix(s, suf) ==
    IF HasSuffix(s, suf) THEN SubSeq(s, 1, Len(s) - Len(suf)) ELSE s

\* filepath.Join of a clean directory and a name.
Join(dir, name) == dir \o <<"/">> \o name

\* ----------------------------------------------------------------- digest
HexDigits == <<"0", "1", "2", "3", "4", "5", "6", "7", "8", "9",
               "a", "b", "c", "d", "e", "f">>

\* fmt.Sprintf("%x", bytes): two hex digits per byte.
RECURSIVE Hex(_)
Hex(bs) ==
    IF bs = <<>> THEN <<>>
    ELSE <<HexDigits[(Head(bs) \div 16) + 1], HexDigits[(Head(bs) % 16) + 1]>>
         \o Hex(Tail(bs))

\* Stand-in for sha256: a collision-free function of the bytes alone (the
\* length followed by the bytes).
Sum(content) == <<Len(content)>> \o content

\* hashFile on a readable file with the given content (lines 198-203).
HashOf(content) == Hex(Sum(content))

\* ------------------------------------------------------------- filesystem
storageDir == <<"s">>
inDir == <<"i">>
otherDir == <<"j">>

\* The files present before the first invocation: a.t and b.t in i with the
\* same bytes, a.t in j with modified bytes, b.u in j with the bytes of i/a.t.
InitialFiles ==
    (Join(inDir, <<"a", ".", "t">>) :> <<1, 2>>)
    @@ (Join(inDir, <<"b", ".", "t">>) :> <<1, 2>>)
    @@ (Join(otherDir, <<"a", ".", "t">>) :> <<1, 3>>)
    @@ (Join(otherDir, <<"b", ".", "u">>) :> <<1, 2>>)

\* The -input values given to the store action.
SourcePaths == DOMAIN InitialFiles

\* The -input values given to the deduplicate action.
SweepDirs == {inDir, storageDir}

VARIABLES
    fs,        \* regular files: path -> content
    dirs,      \* existing directories
    versions,  \* rows of table versions, in insertion (id) order
    actions,   \* rows of table actions, in insertion (id) order
    call,      \* per store invocation: position and locals of storeFile
    sweep      \* per sweep invocation: caller, goroutine, channels, map

vars == <<fs, dirs, versions, actions, call, sweep>>

Exists(p) == p \in DOMAIN fs

\* Content of a file after writing byte b at offset off (0-based); a write
\* past the end leaves a hole of zero bytes.
WriteAt(old, off, b) ==
    IF off < Len(old) THEN [old EXCEPT ![off + 1] = b]
    ELSE old \o [k \in 1..(off - Len(old)) |-> 0] \o <<b>>

\* ------------------------------------------------------------- database
\* INSERT INTO actions (logAction, lines 57-61).  by is the invocation that
\* issued the statement (history only, the table has no such column).
ActionRow(actionType, filename, storageID, who) ==
    [action_type |-> actionType, filename |-> filename,
     storage_id |-> storageID, by |-> who]

\* SELECT version FROM versions WHERE filename = ? ORDER BY version DESC
\* LIMIT 1, with ErrNoRows read as 0 (lines 65-77).
LastVersionOf(filename) ==
    LET V == {versions[k].version : k \in {m \in 1..Len(versions) :
                                            versions[m].filename = filename}}
    IN  IF V = {} THEN 0 ELSE CHOOSE v \in V : \A w \in V : w <= v

\* Row of INSERT INTO versions (lines 79-80).
VersionRow(filename, version, hash, who) ==
    [filename |-> filename, version |-> version, hash |-> hash, by |-> who]

\* ------------------------------------------------------------- storeFile
NoCall ==
    [pc |-> "idle", filePath |-> <<>>, srcFile |-> <<>>, hash |-> <<>>,
     found |-> FALSE, created |-> FALSE, linked |-> FALSE, off |-> 0,
     lastVersion |-> 0, ret |-> <<>>, err |-> "nil"]

\* ext, filename, hashedFilename, storagePath (lines 103-107).
ExtOf(c) == Ext(call[c].filePath)
FilenameOf(c) == TrimSuffix(Base(call[c].filePath), ExtOf(c))
\* Mutant: the name logged without its extension.
LoggedNameNoExt(c) == FilenameOf(c)
LoggedName(c) == FilenameOf(c) \o ExtOf(c)
HashedFilename(c) == call[c].hash \o ExtOf(c)
StoragePath(c) == Join(storageDir, HashedFilename(c))

\* A store invocation is between its entry and its return.
StoreRunning == \E c \in Calls : call[c].pc \notin {"idle", "done"}

\* A sweep invocation is between its entry and its return.
SweepRunning == \E s \in DOMAIN sweep : sweep[s].cpc \in {"go", "select"}

\* return "", err
Fail(c, e) == [call[c] EXCEPT !.pc = "done", !.ret = <<>>, !.err = e]

\* main, case "store": storeFile(*input, db) is entered (lines 427-428, 85).
StoreBegin(c) ==
    /\ call[c].pc = "idle"
    /\ ~SweepRunning
    /\ \E p \in SourcePaths :
         call' = [call EXCEPT ![c] = [NoCall EXCEPT !.pc = "statDir",
                                                    !.filePath = p]]
    /\ UNCHANGED <<fs, dirs, versions, actions, sweep>>

\* os.Stat(storageDir); os.IsNotExist(err) (line 86).
StatDir(c) ==
    /\ call[c].pc = "statDir"
    /\ call' = [call EXCEPT ![c].pc =
                  IF storageDir \in dirs THEN "open" ELSE "mkdir"]
    /\ UNCHANGED <<fs, dirs, versions, actions, sweep>>

\* os.Mkdir(storageDir, os.ModePerm) (lines 87-89): fails if it exists.
Mkdir(c) ==
    /\ call[c].pc = "mkdir"
    /\ IF storageDir \in dirs
       THEN /\ call' = [call EXCEPT ![c] = Fail(c, "mkdir")]
            /\ UNCHANGED dirs
       ELSE /\ dirs' = dirs \cup {storageDir}
            /\ call' = [call EXCEPT ![c].pc = "open"]
    /\ UNCHANGED <<fs, versions, actions, sweep>>

\* os.Open(filePath) (lines 92-96).  The descriptor keeps the file's bytes
\* readable even if the path is removed later.
Open(c) ==
    /\ call[c].pc = "open"
    /\ IF Exists(call[c].filePath)
       THEN call' = [call EXCEPT ![c].pc = "hash",
                                 ![c].srcFile = fs[call[c].filePath]]
       ELSE call' = [call EXCEPT ![c] = Fail(c, "open")]
    /\ UNCHANGED <<fs, dirs, versions, actions, sweep>>

\* hashFile(filePath) (lines 98-101, 191-204): opens the path again.
Hash(c) ==
    /\ call[c].pc = "hash"
    /\ IF Exists(call[c].filePath)
       THEN call' = [call EXCEPT ![c].pc = "stat",
                                 ![c].hash = HashOf(fs[call[c].filePath])]
       ELSE call' = [call EXCEPT ![c] = Fail(c, "hash")]
    /\ UNCHANGED <<fs, dirs, versions, actions, sweep>>

\* Mutant: the existence check made on the digest without the extension.
StatFoundNoExt(c) == Exists(Join(storageDir, call[c].hash))

\* os.Stat(storagePath); err == nil (line 109).
StatFound(c) == Exists(StoragePath(c))

StatBlob(c) ==
    /\ call[c].pc = "stat"
    /\ call' = [call EXCEPT ![c].found = StatFound(c),
                            ![c].pc = IF StatFound(c) THEN "logDup"
                                      ELSE "create"]
    /\ UNCHANGED <<fs, dirs, versions, actions, sweep>>

\* What the duplicate branch does after its logAction succeeded
\* (lines 111-114): it returns hashedFilename.
DupReturn(c) ==
    /\ call' = [call EXCEPT ![c].pc = "done", ![c].ret = HashedFilename(c)]
    /\ UNCHANGED versions

\* logAction(db, "store_duplicate", filename+ext, hashedFilename)
\* (lines 110-115); the INSERT may fail.
LogDup(c) ==
    /\ call[c].pc = "logDup"
    /\ \/ /\ actions' = Append(actions,
                 ActionRow("store_duplicate", LoggedName(c),
                           HashedFilename(c), c))
          /\ DupReturn(c)
       \/ /\ call' = [call EXCEPT ![c] = Fail(c, "db")]
          /\ UNCHANGED <<actions, versions>>
    /\ UNCHANGED <<fs, dirs, sweep>>

\* os.Create(storagePath) (lines 117-121): creates the file or truncates an
\* existing one; may fail.
Create(c) ==
    /\ call[c].pc = "create"
    /\ \/ /\ fs' = (StoragePath(c) :> <<>>) @@ fs
          /\ call' = [call EXCEPT ![c].created = TRUE, ![c].linked = TRUE,
                                  ![c].off = 0,
                                  ![c].pc = IF call[c].srcFile = <<>>
                                            THEN "logStore" ELSE "copy"]
       \/ /\ call' = [call EXCEPT ![c] = Fail(c, "create")]
          /\ UNCHANGED fs
    /\ UNCHANGED <<dirs, versions, actions, sweep>>

\* io.Copy(destFile, srcFile) (lines 123-125), one byte per step: the next
\* byte of the source is written at the descriptor's offset, or the write
\* fails.  A descriptor whose path was removed writes to an unlinked file.
Copy(c) ==
    /\ call[c].pc = "copy"
    /\ \/ /\ fs' = IF call[c].linked
                   THEN [fs EXCEPT ![StoragePath(c)] =
                           WriteAt(@, call[c].off,
                                   call[c].srcFile[call[c].off + 1])]
                   ELSE fs
          /\ call' = [call EXCEPT ![c].off = @ + 1,
                                  ![c].pc = IF call[c].off + 1 =
                                               Len(call[c].srcFile)
                                            THEN "logStore" ELSE "copy"]
       \/ /\ call' = [call EXCEPT ![c] = Fail(c, "copy")]
          /\ UNCHANGED fs
    /\ UNCHANGED <<dirs, versions, actions, sweep>>

\* logAction(db, "store", filename+ext, hashedFilename) (lines 127-129).
LogStore(c) ==
    /\ call[c].pc = "logStore"
    /\ \/ /\ actions' = Append(actions,
                 ActionRow("store", LoggedName(c), HashedFilename(c), c))
          /\ call' = [call EXCEPT ![c].pc = "verSelect"]
       \/ /\ call' = [call EXCEPT ![c] = Fail(c, "logAction")]
          /\ UNCHANGED actions
    /\ UNCHANGED <<fs, dirs, versions, sweep>>

\* logVersion, the SELECT (lines 65-77).
VerSelect(c) ==
    /\ call[c].pc = "verSelect"
    /\ \/ call' = [call EXCEPT ![c].lastVersion = LastVersionOf(LoggedName(c)),
                               ![c].pc = "verInsert"]
       \/ call' = [call EXCEPT ![c] = Fail(c, "logVersion")]
    /\ UNCHANGED <<fs, dirs, versions, actions, sweep>>

\* Mutant: the row of the filename is replaced when there is one (an
\* INSERT OR REPLACE keyed by filename).
UpsertVersion(row) ==
    LET old == {k \in 1..Len(versions) : versions[k].filename = row.filename}
    IN  IF old = {} THEN Append(versions, row)
        ELSE [k \in 1..Len(versions) |->
                IF k \in old THEN row ELSE versions[k]]

\* Table versions after INSERT INTO versions ... VALUES (...) (lines 79-80):
\* a new row, the others untouched.
InsertVersion(row) == Append(versions, row)

\* logVersion, the INSERT of lastVersion+1 (lines 79-81), then the return of
\* hashedFilename (lines 131-136).
VerInsert(c) ==
    /\ call[c].pc = "verInsert"
    /\ \/ /\ versions' = InsertVersion(
                 VersionRow(LoggedName(c), call[c].lastVersion + 1,
                            call[c].hash, c))
          /\ call' = [call EXCEPT ![c].pc = "done",
                                  ![c].ret = HashedFilename(c)]
       \/ /\ call' = [call EXCEPT ![c] = Fail(c, "logVersion")]
          /\ UNCHANGED versions
    /\ UNCHANGED <<fs, dirs, actions, sweep>>

StoreStep(c) ==
    \/ StoreBegin(c)
    \/ StatDir(c)
    \/ Mkdir(c)
    \/ Open(c)
    \/ Hash(c)
    \/ StatBlob(c)
    \/ LogDup(c)
    \/ Create(c)
    \/ Copy(c)
    \/ LogStore(c)
    \/ VerSelect(c)
    \/ VerInsert(c)

\* ------------------------------------------------------ deduplicateFiles
\* hashes := make(map[string]string); errCh := make(chan error, 1);
\* done := make(chan bool) (lines 141-145).  removed and logged are history:
\* the paths this sweep removed and the paths it logged as deduplicated.
NoSweep ==
    [cpc |-> "idle", gpc |-> "idle", directory |-> <<>>, todo |-> <<>>,
     fileHash |-> <<>>, hashes |-> <<>>, locked |-> FALSE, errCh |-> <<>>,
     werr |-> "nil", ret |-> "none", removed |-> {}, before |-> <<>>,
     after |-> <<>>]

\* The names of a directory in sorted order (readDirNames), as paths.
RECURSIVE Sorted(_)
Sorted(S) ==
    IF S = {} THEN <<>>
    ELSE LET least == CHOOSE p \in S : \A q \in S \ {p} : StrLess(p, q)
         IN  <<least>> \o Sorted(S \ {least})

ReadDir(d) == Sorted({p \in DOMAIN fs : Dir(p) = d})

\* Where the walk goes once the entries left are todo: the next entry, or out
\* of filepath.Walk with nil, on to line 179.
Onward(todo) == IF todo = <<>> THEN "sendDone" ELSE "visit"

\* The walk function returned err: filepath.Walk returns it (lines 148-178).
Abort(s, e) == [sweep[s] EXCEPT !.gpc = "sendErr", !.werr = e,
                                !.locked = FALSE]

\* main, case "deduplicate": deduplicateFiles is entered, makes its map and
\* channels and starts the goroutine (lines 434-435, 140-147).  Sweeps follow
\* one another.
SweepBegin(s) ==
    /\ sweep[s].cpc = "idle"
    /\ IF s = 1 THEN TRUE ELSE sweep[s - 1].cpc = "done"
    /\ ~StoreRunning
    /\ \E d \in SweepDirs :
         sweep' = [sweep EXCEPT ![s] = [NoSweep EXCEPT !.cpc = "go",
                                                      !.gpc = "walk",
                                                      !.directory = d,
                                                      !.before = fs]]
    /\ UNCHANGED <<fs, dirs, versions, actions, call>>

\* filepath.Walk on the root (line 148): Lstat, then the names of the
\* directory; the walk function returns nil for the directory itself
\* (line 152) and err for a root that cannot be read (lines 149-151).
WalkRoot(s) ==
    /\ sweep[s].gpc = "walk"
    /\ IF sweep[s].directory \in dirs
       THEN sweep' = [sweep EXCEPT
                        ![s].todo = ReadDir(sweep[s].directory),
                        ![s].gpc = Onward(ReadDir(sweep[s].directory))]
       ELSE sweep' = [sweep EXCEPT ![s] = Abort(s, "lstat")]
    /\ UNCHANGED <<fs, dirs, versions, actions, call>>

\* The next entry: lstat, then hashFile(path) (lines 149-156); either may
\* fail, and hashing may fail on a file that exists.
Visit(s) ==
    /\ sweep[s].gpc = "visit"
    /\ LET path == Head(sweep[s].todo)
       IN  IF Exists(path)
           THEN \/ sweep' = [sweep EXCEPT ![s].fileHash = HashOf(fs[path]),
                                          ![s].gpc = "check"]
                \/ sweep' = [sweep EXCEPT ![s] = Abort(s, "hash")]
           ELSE sweep' = [sweep EXCEPT ![s] = Abort(s, "lstat")]
    /\ UNCHANGED <<fs, dirs, versions, actions, call>>

\* Mutant: the test of the lookup inverted.
SeenInverted(s) == sweep[s].fileHash \notin DOMAIN sweep[s].hashes

\* hashes[fileHash], exists (line 159).
Seen(s) == sweep[s].fileHash \in DOMAIN sweep[s].hashes

\* hashesMutex.Lock() and the lookup (lines 158-159); a first sighting is
\* recorded and the mutex released (lines 169-172).
Check(s) ==
    /\ sweep[s].gpc = "check"
    /\ ~sweep[s].locked
    /\ IF Seen(s)
       THEN sweep' = [sweep EXCEPT ![s].locked = TRUE, ![s].gpc = "remove"]
       ELSE sweep' = [sweep EXCEPT
                        ![s].hashes = (sweep[s].fileHash :>
                                         Head(sweep[s].todo)) @@ @,
                        ![s].todo = Tail(@),
                        ![s].gpc = Onward(Tail(sweep[s].todo))]
    /\ UNCHANGED <<fs, dirs, versions, actions, call>>

\* The filesystem without path p.
Unlink(p) == [q \in (DOMAIN fs) \ {p} |-> fs[q]]

\* os.Remove(path) (lines 161-164).  A store call that holds the removed
\* file open for writing keeps writing to the unlinked file.
Remove(s) ==
    /\ sweep[s].gpc = "remove"
    /\ LET path == Head(sweep[s].todo)
       IN  \/ /\ Exists(path)
              /\ fs' = Unlink(path)
              /\ call' = [c \in Calls |->
                            IF call[c].linked /\ call[c].pc = "copy"
                               /\ StoragePath(c) = path
                            THEN [call[c] EXCEPT !.linked = FALSE]
                            ELSE call[c]]
              /\ sweep' = [sweep EXCEPT ![s].removed = @ \cup {path},
                                        ![s].gpc = "log"]
           \/ /\ sweep' = [sweep EXCEPT ![s] = Abort(s, "remove")]
              /\ UNCHANGED <<fs, call>>
    /\ UNCHANGED <<dirs, versions, actions>>

\* logAction(db, "deduplicate", path, "") and hashesMutex.Unlock()
\* (lines 165-168, 172).
LogDedup(s) ==
    /\ sweep[s].gpc = "log"
    /\ \/ /\ actions' = Append(actions,
                 ActionRow("deduplicate", Head(sweep[s].todo), <<>>,
                           NumStores + s))
          /\ sweep' = [sweep EXCEPT ![s].locked = FALSE,
                                    ![s].todo = Tail(@),
                                    ![s].gpc = Onward(Tail(sweep[s].todo))]
       \/ /\ sweep' = [sweep EXCEPT ![s] = Abort(s, "db")]
          /\ UNCHANGED actions
    /\ UNCHANGED <<fs, dirs, versions, call>>

\* Mutant: the error is sent from inside the walk function, which then
\* returns nil, so the walk goes on with the next entry.
SendErrAndWalkOn(s) ==
    /\ sweep[s].gpc = "sendErr"
    /\ LET rest == IF sweep[s].todo = <<>> THEN <<>> ELSE Tail(sweep[s].todo)
       IN  IF sweep[s].cpc = "select"
           THEN sweep' = [sweep EXCEPT ![s].cpc = "done",
                                       ![s].ret = sweep[s].werr,
                                       ![s].after = fs,
                                       ![s].todo = rest,
                                       ![s].gpc = Onward(rest)]
           ELSE sweep' = [sweep EXCEPT ![s].errCh = Append(@, sweep[s].werr),
                                       ![s].todo = rest,
                                       ![s].gpc = Onward(rest)]
    /\ UNCHANGED <<fs, dirs, versions, actions, call>>

\* errCh <- err (lines 176-178).  The channel has room for one value; a
\* caller already waiting in the select receives it at once and returns it
\* (lines 183-184).
SendErr(s) ==
    /\ sweep[s].gpc = "sendErr"
    /\ IF sweep[s].cpc = "select"
       THEN sweep' = [sweep EXCEPT ![s].cpc = "done",
                                   ![s].ret = sweep[s].werr,
                                   ![s].after = fs,
                                   ![s].gpc = "sendDone"]
       ELSE sweep' = [sweep EXCEPT ![s].errCh = Append(@, sweep[s].werr),
                                   ![s].gpc = "sendDone"]
    /\ UNCHANGED <<fs, dirs, versions, actions, call>>

\* done <- true (line 179) meets a caller waiting in the select, which
\* returns nil (lines 185-186).  The channel has no buffer.
SendDone(s) ==
    /\ sweep[s].gpc = "sendDone"
    /\ sweep[s].cpc = "select"
    /\ sweep' = [sweep EXCEPT ![s].cpc = "done", ![s].ret = "nil",
                              ![s].after = fs, ![s].gpc = "exit"]
    /\ UNCHANGED <<fs, dirs, versions, actions, call>>

\* The value the caller returns when it reaches the select with both the
\* error buffered and the goroutine waiting to send on done: the case is
\* chosen at random among the ready ones (lines 182-187).
SelectBoth(s) == {"err", "done"}

\* The caller reaches the select (line 182): it takes a case that is ready,
\* or waits.
Select(s) ==
    /\ sweep[s].cpc = "go"
    /\ \/ /\ sweep[s].errCh # <<>>
          /\ sweep[s].gpc = "sendDone" => "err" \in SelectBoth(s)
          /\ sweep' = [sweep EXCEPT ![s].cpc = "done",
                                    ![s].ret = Head(sweep[s].errCh),
                                    ![s].after = fs,
                                    ![s].errCh = <<>>]
       \/ /\ sweep[s].gpc = "sendDone"
          /\ sweep[s].errCh # <<>> => "done" \in SelectBoth(s)
          /\ sweep' = [sweep EXCEPT ![s].cpc = "done", ![s].ret = "nil",
                                    ![s].after = fs, ![s].gpc = "exit"]
       \/ /\ sweep[s].errCh = <<>>
          /\ sweep[s].gpc # "sendDone"
          /\ sweep' = [sweep EXCEPT ![s].cpc = "select"]
    /\ UNCHANGED <<fs, dirs, versions, actions, call>>

\* The steps of the goroutine of sweep s (lines 147-180).
GoroutineStep(s) ==
    \/ WalkRoot(s)
    \/ Visit(s)
    \/ Check(s)
    \/ Remove(s)
    \/ LogDedup(s)
    \/ SendErr(s)
    \/ SendDone(s)

SweepStep(s) ==
    \/ SweepBegin(s)
    \/ WalkRoot(s)
    \/ Visit(s)
    \/ Check(s)
    \/ Remove(s)
    \/ LogDedup(s)
    \/ SendErr(s)
    \/ SendDone(s)
    \/ Select(s)

\* ---------------------------------------------------------- specification
Init ==
    /\ fs = InitialFiles
    /\ dirs = {inDir, otherDir}
    /\ versions = <<>>
    /\ actions = <<>>
    /\ call = [c \in Calls |-> NoCall]
    /\ sweep = [s \in Sweeps |-> NoSweep]

Next ==
    \/ \E c \in Calls : StoreStep(c)
    \/ \E s \in Sweeps : SweepStep(s)

Spec == Init /\ [][Next]_vars

\* Store invocations alone, overlapping freely.
StoreNext == \E c \in Calls : StoreStep(c)

StoreSpec == Init /\ [][StoreNext]_vars

\* Store invocations one at a time and nothing else: each call returns before
\* the next is entered.
Alone(c) == \A d \in Calls \ {c} : call[d].pc \in {"idle", "done"}

SeqNext == \E c \in Calls : Alone(c) /\ StoreStep(c)

SeqSpec == Init /\ [][SeqNext]_vars

\* Sweep invocations alone, one after the other.
SweepNext == \E s \in Sweeps : SweepStep(s)

SweepSpec == Init /\ [][SweepNext]_vars

\* ------------------------------------------------------------ properties
Returned(c) == call[c].pc = "done"
Succeeded(c) == Returned(c) /\ call[c].err = "nil"

\* Positions of the rows an invocation wrote.
ActionsBy(who) == {k \in 1..Len(actions) : actions[k].by = who}
VersionsBy(who) == {k \in 1..Len(versions) : versions[k].by = who}

NoSweepYet == \A s \in Sweeps : sweep[s].cpc = "idle"

\* C1: for every filename the version numbers of its rows, in insertion
\* order, are 1, 2, 3, ...: the k-th row of a filename carries version k.
C1_VersionsCountUp ==
    \A k \in 1..Len(versions) :
        versions[k].version =
            1 + Cardinality({m \in 1..(k - 1) :
                               versions[m].filename = versions[k].filename})

\* C2: every store call that returned successfully has appended exactly one
\* version row, for its filename, on the duplicate branch as on the other.
C2_SuccessAppendsOneVersion ==
    \A c \in Calls :
        Succeeded(c) =>
            /\ Cardinality(VersionsBy(c)) = 1
            /\ \A k \in VersionsBy(c) :
                   versions[k].filename = Base(call[c].filePath)

\* C3: of the store calls with one storage key, at most one creates the
\* blob (no sweep involved).
C3_OneCreatorPerKey ==
    NoSweepYet =>
        \A c, d \in Calls :
            (c # d /\ call[c].created /\ call[d].created)
                => StoragePath(c) # StoragePath(d)

\* The storage key of a source: hex digest of its bytes and its extension.
KeyOf(c) == HashOf(call[c].srcFile) \o Ext(call[c].filePath)

\* The blobs in the storage root named key.
BlobsNamed(key) ==
    {p \in DOMAIN fs : Dir(p) = storageDir /\ Base(p) = key}

\* c returned before d was entered (calls one at a time): c's action row
\* precedes d's.
Earlier(c, d) ==
    \E k \in ActionsBy(c) : \E m \in ActionsBy(d) : k < m

SameContentTwice(c, d) ==
    /\ c # d
    /\ Succeeded(c)
    /\ Succeeded(d)
    /\ call[c].srcFile = call[d].srcFile
    /\ Ext(call[c].filePath) = Ext(call[d].filePath)
    /\ Earlier(c, d)

\* C4: of two successful stores of the same content in sequence, both return
\* the same storage key (digest + extension), the second writes no blob, and
\* one blob exists for the key.
C4_SameContentTwiceOneBlob ==
    \A c, d \in Calls :
        SameContentTwice(c, d) =>
            /\ call[c].ret = KeyOf(c)
            /\ call[d].ret = call[c].ret
            /\ ~call[d].created
            /\ Cardinality(BlobsNamed(call[d].ret)) = 1

C4_Witness ==
    \E c, d \in Calls : SameContentTwice(c, d) /\ call[d].found

\* C5: after a store call failed creating or copying the blob, no blob is
\* visible at its storage key (no other call wrote that key, no sweep).
C5_FailedWriteLeavesNoBlob ==
    \A c \in Calls :
        ( /\ Returned(c)
          /\ call[c].err \in {"create", "copy"}
          /\ NoSweepYet
          /\ \A d \in Calls \ {c} :
                 call[d].created => StoragePath(d) # StoragePath(c) )
            => ~Exists(StoragePath(c))

SweepReturned(s) == sweep[s].cpc = "done"

\* C6: a sweep in which a step failed does not return nil.
C6_SweepErrorReturned ==
    \A s \in Sweeps :
        (SweepReturned(s) /\ sweep[s].werr # "nil") => sweep[s].ret # "nil"

\* The files of directory d in filesystem f.
FilesIn(f, d) == {p \in DOMAIN f : Dir(p) = d}

\* The first file in walk order among those of d in f with the digest of p.
FirstWithDigest(f, d, p) ==
    LET same == {q \in FilesIn(f, d) : HashOf(f[q]) = HashOf(f[p])}
    IN  CHOOSE q \in same : \A r \in same \ {q} : StrLess(q, r)

\* Of the files the directory held at the entry of sweep s, those that are
\* there at its return are exactly the first of each digest.
SurvivorsAreFirsts(s) ==
    \A p \in FilesIn(sweep[s].before, sweep[s].directory) :
        (p \in FilesIn(sweep[s].after, sweep[s].directory))
            <=> (p = FirstWithDigest(sweep[s].before, sweep[s].directory, p))

\* C7: after a sweep that returned success, exactly one file of every digest
\* remains, the first in walk order.
C7_SuccessLeavesFirsts ==
    \A s \in Sweeps :
        (SweepReturned(s) /\ sweep[s].ret = "nil") => SurvivorsAreFirsts(s)

\* The survivor rule for the sweeps whose walk ended without an error.
SurvivorsWhenWalkEnded ==
    \A s \in Sweeps :
        (SweepReturned(s) /\ sweep[s].werr = "nil") => SurvivorsAreFirsts(s)

\* Positions of the deduplicate rows of sweep s that name path p.
DedupRows(s, p) ==
    {k \in ActionsBy(NumStores + s) :
        /\ actions[k].action_type = "deduplicate"
        /\ actions[k].filename = p
        /\ actions[k].storage_id = <<>>}

\* C8: at the return of a sweep its deduplicate rows and the files it
\* removed correspond one to one.
C8_DedupRowsMatchRemovals ==
    \A s \in Sweeps :
        SweepReturned(s) =>
            /\ \A p \in sweep[s].removed : Cardinality(DedupRows(s, p)) = 1
            /\ \A k \in ActionsBy(NumStores + s) :
                   actions[k].filename \in sweep[s].removed

\* Sweep t follows the successful sweep s on the same directory with nothing
\* changed in between.
SweptAgain(s, t) ==
    /\ t = s + 1
    /\ SweepReturned(s)
    /\ SweepReturned(t)
    /\ sweep[s].ret = "nil"
    /\ sweep[t].directory = sweep[s].directory
    /\ sweep[t].before = sweep[s].after

\* C9: the second of two sweeps in a row removes no file and appends no
\* action row.
C9_SecondSweepDoesNothing ==
    \A s, t \in Sweeps :
        SweptAgain(s, t) =>
            (sweep[t].removed = {} /\ ActionsBy(NumStores + t) = {})

\* The same for a first sweep whose walk ended without an error.
SecondSweepAfterEndedWalk ==
    \A s, t \in Sweeps :
        (SweptAgain(s, t) /\ sweep[s].werr = "nil") =>
            (sweep[t].removed = {} /\ ActionsBy(NumStores + t) = {})

\* C10: a store call that returned successfully has appended exactly one
\* action row: store if it wrote the blob, store_duplicate if the blob was
\* there, with the call's filename and storage key; and the duplicate branch
\* returns success once its row is written.
C10_OneActionPerStore ==
    \A c \in Calls :
        /\ Succeeded(c) =>
             /\ Cardinality(ActionsBy(c)) = 1
             /\ call[c].created = ~call[c].found
             /\ \A k \in ActionsBy(c) :
                    /\ actions[k].action_type =
                           IF call[c].found THEN "store_duplicate" ELSE "store"
                    /\ actions[k].filename = Base(call[c].filePath)
                    /\ actions[k].storage_id = KeyOf(c)
                    /\ actions[k].storage_id = call[c].ret
        /\ (Returned(c) /\ call[c].found /\ ActionsBy(c) # {})
               => call[c].err = "nil"

C10_Witness ==
    \E c, d \in Calls :
        /\ Succeeded(c)
        /\ Succeeded(d)
        /\ call[c].found
        /\ ~call[d].found
        /\ \E k \in ActionsBy(c) : actions[k].action_type = "store_duplicate"
        /\ \E k \in ActionsBy(d) : actions[k].action_type = "store"

\* Sequence r is sequence q with rows added at the end.
Extends(r, q) == Len(q) <= Len(r) /\ SubSeq(r, 1, Len(q)) = q

\* C11: the version ledger is append-only: every step of a store or a sweep
\* leaves the rows written so far in place, with their filename, version
\* number and digest, and a row added for a filename carries the new digest.
C11_LedgerAppendOnly == [][Extends(versions', versions)]_vars

\* A filename has version 1 with one digest and version 2 with another, and
\* a sweep has run since.
C11_Witness ==
    /\ \E k, m \in 1..Len(versions) :
           /\ k < m
           /\ versions[k].filename = versions[m].filename
           /\ versions[k].version = 1
           /\ versions[m].version = 2
           /\ versions[k].hash # versions[m].hash
    /\ \E s \in Sweeps : sweep[s].cpc = "done" /\ sweep[s].removed # {}

\* C12: a store call never fails on creating the storage root because the
\* root is already there.
C12_RootCreationNeverFails ==
    \A c \in Calls : Returned(c) => call[c].err # "mkdir"

\* The walk of sweep s is over: filepath.Walk has returned and the goroutine
\* is at or past its send on done, holding no lock.
WalkOver(s) == sweep[s].gpc \in {"sendDone", "exit"} /\ ~sweep[s].locked

\* C13: when deduplicateFiles has returned the walk is over, and every file
\* the sweep removed was removed before the return.
C13_ReturnAfterWalk ==
    \A s \in Sweeps :
        SweepReturned(s) =>
            /\ WalkOver(s)
            /\ \A p \in sweep[s].removed :
                   /\ p \in DOMAIN sweep[s].before
                   /\ p \notin DOMAIN sweep[s].after

\* One sweep returned nil after removing a file, another returned an error.
C13_Witness ==
    \E s, t \in Sweeps :
        /\ SweepReturned(s)
        /\ sweep[s].ret = "nil"
        /\ sweep[s].removed # {}
        /\ SweepReturned(t)
        /\ sweep[t].ret # "nil"

\* The blobs that successful store calls returned: the stored blobs.
StoredBlobs == {StoragePath(c) : c \in {d \in Calls : Succeeded(d)}}

\* C14: no sweep removes a stored blob from the storage root (stores have no
\* removing step at all).
C14_BlobsNeverRemoved ==
    \A s \in Sweeps : sweep[s].removed \cap StoredBlobs = {}

\* C15: once deduplicateFiles has returned, its goroutine has ended or can
\* still take a step: it is not blocked on a channel send that nothing will
\* receive (the caller, the only receiver, has returned for good).
C15_GoroutineNotStuck ==
    \A s \in Sweeps :
        (SweepReturned(s) /\ sweep[s].gpc # "exit")
            => ENABLED GoroutineStep(s)

\* A goroutine blocked after the return of its caller stays blocked.
StuckStaysStuck ==
    [][\A s \in Sweeps :
          (SweepReturned(s) /\ sweep[s].gpc = "sendDone")
              => (sweep'[s].cpc = "done" /\ sweep'[s].gpc = "sendDone")]_vars

\* The files as sweep s saw them last: now, or at its return.
View(s) == IF SweepReturned(s) THEN sweep[s].after ELSE fs

\* The digests of the files of directory d in filesystem f.
DigestsIn(f, d) == {HashOf(f[p]) : p \in FilesIn(f, d)}

\* C16: from the entry of a sweep on, every digest that the directory held
\* at the entry is the digest of a file still in the directory; and a file
\* the sweep removed has its digest in the index, recorded for another,
\* earlier file that is still there with that digest.
C16_NoContentLost ==
    \A s \in Sweeps :
        sweep[s].cpc # "idle" =>
            /\ DigestsIn(sweep[s].before, sweep[s].directory)
                   \subseteq DigestsIn(fs, sweep[s].directory)
            /\ \A p \in sweep[s].removed :
                   LET h == HashOf(sweep[s].before[p])
                   IN  /\ h \in DOMAIN sweep[s].hashes
                       /\ sweep[s].hashes[h] # p
                       /\ StrLess(sweep[s].hashes[h], p)
                       /\ sweep[s].hashes[h] \in DOMAIN View(s)
                       /\ HashOf(View(s)[sweep[s].hashes[h]]) = h

\* A sweep is under way and has removed a file.
C16_Witness ==
    \E s \in Sweeps :
        /\ sweep[s].cpc \in {"go", "select"}
        /\ sweep[s].removed # {}
        /\ sweep[s].gpc = "log"

\* C17: at the step in which a store call returns success, the blob at its
\* storage key exists and its bytes have the digest that is in the key.
C17_ReturnedBlobComplete ==
    [][\A c \in Calls :
          (call[c].pc # "done" /\ call'[c].pc = "done"
           /\ call'[c].err = "nil")
              => /\ StoragePath(c) \in DOMAIN fs'
                 /\ HashOf(fs'[StoragePath(c)]) = call[c].hash]_vars
====
